---- MODULE Spec2Model ----
(***************************************************************************)
(* A model of script.py, the GitHub release downloader: one run of main()  *)
(* after the other against a configuration document, a staging directory   *)
(* (.cache) and an output tree (bin/) that persist between runs.            *)
(*                                                                         *)
(* Strings the program computes on (asset names, file_list entries,        *)
(* keywords) are sequences of one-character strings, so that lower(),      *)
(* split(), the `in` substring test and Path.suffix are computed.          *)
(***************************************************************************)
EXTENDS Integers, Sequences, FiniteSets, TLC

VARIABLES
    args,             \* the parsed command line (argparse namespace)
    pc,               \* where main() is
    i, j,             \* loop positions: target index, file_list index
    version,          \* release["version"] of the loaded config, per target
    disk,             \* the version fields of config.yaml on disk, per target
    tag,              \* upstream: tag_name of the latest release, per target
    latest_releases,  \* the dict get_latest_releases builds
    has_updates,
    updated_projects,
    cache,            \* files in CACHE_DIR: name -> bytes
    bin,              \* files written under bin/
    uploaded,         \* what the upload phase did in this run
    out,              \* what this run printed
    version0,         \* history: the recorded versions when the run started
    decided,          \* history: the outcome of the version check per target
    pass,             \* history: what each file_list pass of this run did
    abortAt,          \* history: where an exception left main()
    configWrites,     \* history: number of rewrites of config.yaml in this run
    run,              \* history: number of runs started
    m_assets, m_keywords, m_result,  \* inputs and result of find_best_match alone
    a_name, a_result,                \* input and result of get_architecture_name
    k_entry, k_name, k_score,        \* a file_list entry, an asset name and its score
    first             \* history: what the first of two runs in succession left

vars == <<args, pc, i, j, version, disk, tag, latest_releases, has_updates,
          updated_projects, cache, bin, uploaded, out, version0, decided, pass,
          abortAt, configWrites, run, m_assets, m_keywords, m_result,
          a_name, a_result, k_entry, k_name, k_score, first>>

runVars == <<args, pc, i, j, version, disk, tag, latest_releases, has_updates,
             updated_projects, cache, bin, uploaded, out, version0, decided, pass,
             abortAt, configWrites, run>>

matchVars == <<m_assets, m_keywords, m_result>>

archVars == <<a_name, a_result>>

scoreVars == <<k_entry, k_name, k_score>>

None == "None"

-----------------------------------------------------------------------------
(* Strings *)

\* str.lower() on one character
LowerChar(c) ==
    CASE c = "A" -> "a"
      [] c = "B" -> "b"
      [] c = "C" -> "c"
      [] OTHER -> c

\* str.lower()
lower(s) == [n \in 1..Len(s) |-> LowerChar(s[n])]

\* Python's `k in s` on strings; the empty string is in every string
IsSubstr(k, s) ==
    \E n \in 0..(Len(s) - Len(k)) : \A m \in 1..Len(k) : s[n + m] = k[m]

RECURSIVE SplitAcc(_, _, _, _)
SplitAcc(s, sep, cur, acc) ==
    IF s = <<>> THEN Append(acc, cur)
    ELSE IF Head(s) = sep THEN SplitAcc(Tail(s), sep, <<>>, Append(acc, cur))
    ELSE SplitAcc(Tail(s), sep, Append(cur, Head(s)), acc)

\* str.split(sep) with a one-character separator
split(s, sep) == SplitAcc(s, sep, <<>>, <<>>)

\* the index of the last "." of a name, 0 when there is none (str.rfind + 1)
LastDot(s) ==
    IF \E n \in 1..Len(s) : s[n] = "."
    THEN CHOOSE n \in 1..Len(s) : s[n] = "." /\ \A m \in (n + 1)..Len(s) : s[m] # "."
    ELSE 0

\* pathlib's PurePath.suffix: from the last dot, unless that dot leads or ends the name
suffix(s) ==
    IF 1 < LastDot(s) /\ LastDot(s) < Len(s) THEN SubSeq(s, LastDot(s), Len(s)) ELSE <<>>

-----------------------------------------------------------------------------
(* find_best_match *)

\* the score of one asset: sum(1 for keyword in keywords if keyword in name.lower())
score(name, keywords) ==
    Cardinality({n \in 1..Len(keywords) : IsSubstr(keywords[n], lower(name))})

\* a slip in the replacement test: an equal score replaces the match
Better_OrEqual(sc, best_score) == sc >= best_score

\* the replacement test of the loop
Better(sc, best_score) == sc > best_score

RECURSIVE BestFrom(_, _, _, _, _)
BestFrom(assets, keywords, n, best_match, best_score) ==
    IF n > Len(assets) THEN best_match
    ELSE IF Better(score(assets[n], keywords), best_score)
         THEN BestFrom(assets, keywords, n + 1, n, score(assets[n], keywords))
         ELSE BestFrom(assets, keywords, n + 1, best_match, best_score)

\* a slip in the loop: the first asset is never looked at
find_best_match_SkipFirst(assets, keywords) == BestFrom(assets, keywords, 2, 0, 0)

\* the index of the asset returned, 0 for None
find_best_match(assets, keywords) == BestFrom(assets, keywords, 1, 0, 0)

-----------------------------------------------------------------------------
(* The configuration document and the upstream releases *)

\* config.yaml: the releases, in document order.  A file_list entry is
\* "keyword,keyword:destination".
Config ==
    << [name |-> "tool", repo |-> "o/tool",
        file_list |-> << <<"A", ",", "b", ":", "x">>, <<"c", ":", "y">> >>],
       [name |-> "util", repo |-> "o/util",
        file_list |-> << <<"a", ":", "z">> >>] >>

Targets == 1..Len(Config)

Tags == {"v1", "v2"}

\* the tags under which a repository may have published its latest release
UpstreamTags(t) == IF t = 1 THEN {"v1", "v2"} ELSE {"v1"}

\* the versions config.yaml may record for a release; None: no version key
RecordedVersions(t) == IF t = 1 THEN {None, "v1", "v2"} ELSE {None, "v1"}

\* the asset names of the release a repository publishes under a tag
UpstreamAssets(t, tg) ==
    CASE t = 1 /\ tg = "v1" -> << <<"A", "b", ".", "z", "i", "p">>, <<"c", ".", "g", "z">> >>
      [] t = 1 /\ tg = "v2" -> << <<"a", ".", "z", "i", "p">>, <<"b", "a", ".", "z", "i", "p">> >>
      [] t = 2 /\ tg = "v1" -> << <<"b", ".", "x", "z">>, <<"x", "a">> >>
      [] OTHER -> << >>

AllNames ==
    UNION {{UpstreamAssets(p[1], p[2])[n] : n \in 1..Len(UpstreamAssets(p[1], p[2]))} :
           p \in Targets \X Tags}

\* one pass of process_releases per target and file_list entry
PassIds == UNION {{<<t, n>> : n \in 1..Len(Config[t].file_list)} : t \in Targets}

-----------------------------------------------------------------------------
(* The command line *)

Flags == [update_config : BOOLEAN, download : BOOLEAN, upload : BOOLEAN,
          all : BOOLEAN, force : BOOLEAN]

\* main(): without any of the four operation flags, --all is set
Normalise(a) ==
    IF ~(a.update_config \/ a.download \/ a.upload \/ a.all)
    THEN [a EXCEPT !.all = TRUE]
    ELSE a

NoFlags == [update_config |-> FALSE, download |-> FALSE, upload |-> FALSE,
            all |-> FALSE, force |-> FALSE]

-----------------------------------------------------------------------------
(* State of one run *)

NoPass == [match |-> -1, dl |-> "none", ex |-> "none", unlinked |-> "none",
           bytes |-> "absent", stale |-> FALSE]

NoAbort == [phase |-> "none", t |-> 0, n |-> 0]

Msg(kind, t, n) == [kind |-> kind, t |-> t, n |-> n]

\* no run has ended yet
NoFirst == [ended |-> FALSE, options |-> NoFlags, tree |-> {},
            doc |-> [t \in Targets |-> None], clean |-> FALSE]

Init ==
    /\ args = NoFlags
    /\ pc = "idle"
    /\ i = 1
    /\ j = 1
    /\ disk \in {d \in [Targets -> {None} \cup Tags] :
                    \A t \in Targets : d[t] \in RecordedVersions(t)}
    /\ version = disk
    /\ tag \in {u \in [Targets -> Tags] : \A t \in Targets : u[t] \in UpstreamTags(t)}
    /\ latest_releases = [t \in Targets |-> "unfetched"]
    /\ has_updates = FALSE
    /\ updated_projects = << >>
    /\ cache = [f \in AllNames |-> "absent"]
    /\ bin = {}
    /\ uploaded = "none"
    /\ out = {}
    /\ version0 = disk
    /\ decided = [t \in Targets |-> "none"]
    /\ pass = [p \in PassIds |-> NoPass]
    /\ abortAt = NoAbort
    /\ configWrites = 0
    /\ run = 0
    /\ m_assets = << >>
    /\ m_keywords = << >>
    /\ m_result = -1
    /\ a_name = << >>
    /\ a_result = "unset"
    /\ k_entry = << >>
    /\ k_name = << >>
    /\ k_score = -1
    /\ first = NoFirst

\* the number of runs of the script that are followed
MaxRuns == 2

\* main() is entered with the parsed command line a: config.yaml is loaded
Enter(a) ==
    /\ run' = run + 1
    /\ args' = a
    /\ version' = disk
    /\ version0' = disk
    /\ latest_releases' = [t \in Targets |-> "unfetched"]
    /\ has_updates' = FALSE
    /\ updated_projects' = << >>
    /\ uploaded' = "none"
    /\ out' = {}
    /\ decided' = [t \in Targets |-> "none"]
    /\ pass' = [p \in PassIds |-> NoPass]
    /\ abortAt' = NoAbort
    /\ configWrites' = 0
    /\ pc' = "fetch"
    /\ i' = 1
    /\ j' = 1
    /\ UNCHANGED <<disk, tag, cache, bin, matchVars, archVars, scoreVars>>

\* the script is started with some command line
StartRun ==
    /\ pc = "idle"
    /\ run < MaxRuns
    /\ \E a \in Flags : Enter(Normalise(a))
    /\ UNCHANGED first

\* main()'s except clause: the error is printed and raised again
Abort(phase, t, n) ==
    /\ pc' = "aborted"
    /\ abortAt' = [phase |-> phase, t |-> t, n |-> n]

FetchOutcomes == {"ok", "http_fail", "transport_error"}

\* get_latest_releases: one iteration of its loop
FetchOne ==
    /\ pc = "fetch"
    /\ \E r \in FetchOutcomes :
         CASE r = "ok" ->
                /\ latest_releases' = [latest_releases EXCEPT ![i] = tag[i]]
                /\ out' = out
                /\ pc' = IF i = Len(Config) THEN "check" ELSE "fetch"
                /\ i' = IF i = Len(Config) THEN 1 ELSE i + 1
                /\ abortAt' = abortAt
           [] r = "http_fail" ->
                /\ latest_releases' = [latest_releases EXCEPT ![i] = None]
                /\ out' = out \cup {Msg("FetchFailed", i, 0)}
                /\ pc' = IF i = Len(Config) THEN "check" ELSE "fetch"
                /\ i' = IF i = Len(Config) THEN 1 ELSE i + 1
                /\ abortAt' = abortAt
           [] r = "transport_error" ->
                /\ latest_releases' = latest_releases
                /\ out' = out \cup {Msg("Error", i, 0)}
                /\ i' = i
                /\ Abort("fetch", i, 0)
    /\ UNCHANGED <<args, j, version, disk, tag, has_updates, updated_projects, cache,
                   bin, uploaded, version0, decided, pass, configWrites, run, matchVars, archVars, scoreVars, first>>

-----------------------------------------------------------------------------
(* check_and_update_versions *)

\* a slip: `if not latest_release: continue` is missing
Changed_Any(latest, current) == latest # current

\* a slip: a release without a recorded version counts as up to date
Changed_IfRecorded(latest, current) ==
    latest # None /\ current # None /\ latest # current

\* `if not latest_release: continue`, then `latest_version != current_version`
Changed(latest, current) == latest # None /\ latest # current

\* a slip: the new tag is never assigned to release["version"]
NewVersion_Kept(update, latest, current) == current

\* the version field of one release after the loop
NewVersion(update, latest, current) ==
    IF Changed(latest, current) /\ update THEN latest ELSE current

\* a slip: the configuration file is written whenever update is set
WritesConfig_Always(update, updates) == update

\* `if update and has_updates`: the configuration file is written
WritesConfig(update, updates) == update /\ updates

Outcome(latest, current) ==
    IF latest = None THEN "STALE_NO_DATA"
    ELSE IF Changed(latest, current) THEN "UPDATE_AVAILABLE"
    ELSE "UP_TO_DATE"

RECURSIVE NamesOf(_, _)
NamesOf(n, changed) ==
    IF n > Len(Config) THEN << >>
    ELSE IF n \in changed THEN <<Config[n].name>> \o NamesOf(n + 1, changed)
    ELSE NamesOf(n + 1, changed)

WriteOutcomes == {"ok", "io_error"}

\* check_and_update_versions, called with update = args.update_config or args.all
CheckVersions ==
    /\ pc = "check"
    /\ LET update  == args.update_config \/ args.all
           changed == {t \in Targets : Changed(latest_releases[t], version[t])}
           updates == changed # {}
           newv    == [t \in Targets |-> NewVersion(update, latest_releases[t], version[t])]
       IN /\ has_updates' = updates
          /\ updated_projects' = NamesOf(1, changed)
          /\ decided' = [t \in Targets |-> Outcome(latest_releases[t], version[t])]
          /\ version' = newv
          /\ IF WritesConfig(update, updates)
             THEN \E w \in WriteOutcomes :
                    IF w = "ok"
                    THEN /\ disk' = newv
                         /\ configWrites' = configWrites + 1
                         /\ out' = out \cup {Msg("UpdateAvailable", t, 0) : t \in changed}
                                       \cup {Msg("ConfigUpdated", 0, 0)}
                         /\ pc' = "gate"
                         /\ abortAt' = abortAt
                    ELSE /\ disk' = disk
                         /\ configWrites' = configWrites
                         /\ out' = out \cup {Msg("UpdateAvailable", t, 0) : t \in changed}
                                       \cup {Msg("Error", 0, 0)}
                         /\ Abort("persist", 0, 0)
             ELSE /\ disk' = disk
                  /\ configWrites' = configWrites
                  /\ out' = out \cup {Msg("UpdateAvailable", t, 0) : t \in changed}
                                \cup (IF update THEN {Msg("AllUpToDate", 0, 0)} ELSE {})
                  /\ pc' = "gate"
                  /\ abortAt' = abortAt
    /\ UNCHANGED <<args, i, j, tag, latest_releases, cache, bin, uploaded, version0,
                   pass, run, matchVars, archVars, scoreVars, first>>

-----------------------------------------------------------------------------
(* main(): the early exit and the choice of phases *)

\* `if not has_updates: if not (args.force or args.all): return`
ExitsEarly(a, updates) == ~updates /\ ~(a.force \/ a.all)

Gate ==
    /\ pc = "gate"
    /\ IF ExitsEarly(args, has_updates)
       THEN /\ out' = out \cup {Msg("NothingToDo", 0, 0)}
            /\ pc' = "done"
       ELSE /\ out' = out \cup (IF has_updates THEN {} ELSE {Msg("ProceedAnyway", 0, 0)})
            /\ pc' = IF args.download \/ args.all THEN "process" ELSE "upload"
    /\ i' = 1
    /\ j' = 1
    /\ UNCHANGED <<args, version, disk, tag, latest_releases, has_updates,
                   updated_projects, cache, bin, uploaded, version0, decided, pass,
                   abortAt, configWrites, run, matchVars, archVars, scoreVars, first>>

-----------------------------------------------------------------------------
(* download_file, extract_file, process_releases *)

\* the branch extract_file takes, by file_path.suffix
ArchiveKind(name) ==
    IF suffix(name) = <<".", "z", "i", "p">> THEN "zip"
    ELSE IF suffix(name) \in {<<".", "t", "a", "r">>, <<".", "g", "z">>,
                               <<".", "b", "z", "2">>, <<".", "x", "z">>} THEN "tar"
    ELSE "copy"

\* `keywords = [k.lower() for k in file_keywords.split(",")]`
Keywords(file_keywords) ==
    [n \in 1..Len(split(file_keywords, ",")) |-> lower(split(file_keywords, ",")[n])]

\* `if best_match:` an asset was returned
Matched(best_match) == best_match # 0

\* `if name not in updated_projects: continue` is commented out in process_releases:
\* a release is skipped only when its metadata is missing (`if not latest_release`)
Skipped(t, latest, updated) == latest = None

DownloadOutcomes == {"ok", "http_fail", "raise_connect", "raise_stream"}

\* download_file: the staging directory after it returned or raised.
\* 200: the body is written; another status: nothing is written; an exception of
\* requests.get: nothing is written; an exception while the body is streamed: the
\* file was opened for writing and holds a part of the body.
Staged(dl, name, files) ==
    CASE dl = "ok" -> [files EXCEPT ![name] = "full"]
      [] dl = "raise_stream" -> [files EXCEPT ![name] = "partial"]
      [] OTHER -> files

\* download_file raised
Raised(dl) == dl \in {"raise_connect", "raise_stream"}

kinds == [f \in AllNames |-> ArchiveKind(f)]

\* extract_file: what is under bin/ after the archive was expanded, or the file copied,
\* into save_path (a file of the same name is overwritten)
Extracted(tree, dest, name, bytes) ==
    {f \in tree : ~(f.dest = dest /\ f.name = name)}
        \cup {[dest |-> dest, name |-> name, kind |-> kinds[name], bytes |-> bytes]}

\* a slip: the staged file is not removed
Unlinked_Kept(files, name) == files

\* `temp_file.unlink()`: the staging directory after it
Unlinked(files, name) == [files EXCEPT ![name] = "absent"]

\* the loops of process_releases and the phase that follows them
AfterPass(t, n) ==
    IF n < Len(Config[t].file_list) THEN <<"process", t, n + 1>>
    ELSE IF t < Len(Config) THEN <<"process", t + 1, 1>>
    ELSE <<"upload", 1, 1>>

AfterTarget(t) ==
    IF t < Len(Config) THEN <<"process", t + 1, 1>> ELSE <<"upload", 1, 1>>

\* process_releases: a release without metadata is passed over
ProcessSkip ==
    /\ pc = "process"
    /\ Skipped(i, latest_releases[i], updated_projects)
    /\ pc' = AfterTarget(i)[1]
    /\ i' = AfterTarget(i)[2]
    /\ j' = AfterTarget(i)[3]
    /\ UNCHANGED <<args, version, disk, tag, latest_releases, has_updates,
                   updated_projects, cache, bin, uploaded, out, version0, decided,
                   pass, abortAt, configWrites, run, matchVars, archVars, scoreVars, first>>

\* `file_entry.split(":")` for every file_list entry of the configuration
file_entry == [p \in PassIds |-> split(Config[p[1]].file_list[p[2]], ":")]

\* `find_best_match(assets, keywords)` as process_releases calls it, for every
\* file_list entry and every release its repository may have published
best_matches ==
    [q \in {<<p[1], p[2], tg>> : p \in PassIds, tg \in Tags} |->
        find_best_match(UpstreamAssets(q[1], q[3]), Keywords(file_entry[<<q[1], q[2]>>][1]))]

\* process_releases: one file_list entry of one release
ProcessPass ==
    /\ pc = "process"
    /\ ~Skipped(i, latest_releases[i], updated_projects)
    /\ LET parts      == file_entry[<<i, j>>]
           save_path  == parts[2]
           assets     == UpstreamAssets(i, latest_releases[i])
           best_match == best_matches[<<i, j, latest_releases[i]>>]
           name       == assets[best_match]
       IN IF Len(parts) # 2
          THEN \* the unpacking of file_entry.split(":") raises ValueError
               /\ Abort("split", i, j)
               /\ out' = out \cup {Msg("Error", i, j)}
               /\ UNCHANGED <<i, j, cache, bin, pass>>
          ELSE IF ~Matched(best_match)
          THEN /\ out' = out \cup {Msg("NoMatchFound", i, j)}
               /\ pass' = [pass EXCEPT ![<<i, j>>] = [NoPass EXCEPT !.match = 0]]
               /\ pc' = AfterPass(i, j)[1]
               /\ i' = AfterPass(i, j)[2]
               /\ j' = AfterPass(i, j)[3]
               /\ UNCHANGED <<cache, bin, abortAt>>
          ELSE \E dl \in DownloadOutcomes, readable \in BOOLEAN :
               LET staged == Staged(dl, name, cache)
                   bytes  == staged[name]
                   ex     == IF bytes # "absent" /\ readable THEN "ok" ELSE "failed"
               IN IF Raised(dl)
                  THEN /\ cache' = staged
                       /\ bin' = bin
                       /\ pass' = [pass EXCEPT ![<<i, j>>] =
                                     [NoPass EXCEPT !.match = best_match, !.dl = dl]]
                       /\ out' = out \cup {Msg("Error", i, j)}
                       /\ Abort("download", i, j)
                       /\ UNCHANGED <<i, j>>
                  ELSE /\ bin' = IF ex = "ok" THEN Extracted(bin, save_path, name, bytes)
                                 ELSE bin
                       /\ pass' = [pass EXCEPT ![<<i, j>>] =
                                     [match |-> best_match, dl |-> dl, ex |-> ex,
                                      unlinked |-> IF bytes = "absent" THEN "missing"
                                                   ELSE "removed",
                                      bytes |-> bytes, stale |-> dl # "ok"]]
                       /\ IF bytes = "absent"
                          THEN \* temp_file.unlink() raises FileNotFoundError
                               /\ cache' = staged
                               /\ out' = out \cup {Msg("DownloadFailed", i, j),
                                                   Msg("ExtractFailed", i, j),
                                                   Msg("Error", i, j)}
                               /\ Abort("unlink", i, j)
                               /\ UNCHANGED <<i, j>>
                          ELSE /\ cache' = Unlinked(staged, name)
                               /\ out' = out
                                    \cup (IF dl = "ok" THEN {Msg("Downloaded", i, j)}
                                          ELSE {Msg("DownloadFailed", i, j)})
                                    \cup (IF ex = "ok" THEN {Msg("Extracted", i, j)}
                                          ELSE {Msg("ExtractFailed", i, j)})
                               /\ pc' = AfterPass(i, j)[1]
                               /\ i' = AfterPass(i, j)[2]
                               /\ j' = AfterPass(i, j)[3]
                               /\ abortAt' = abortAt
    /\ UNCHANGED <<args, version, disk, tag, latest_releases, has_updates,
                   updated_projects, uploaded, version0, decided, configWrites,
                   run, matchVars, archVars, scoreVars, first>>

-----------------------------------------------------------------------------
(* The upload phase *)

\* `if args.upload or args.all`: upload_directory runs when the WebDAV
\* credentials are in the environment, else an error is printed
Upload ==
    /\ pc = "upload"
    /\ IF args.upload \/ args.all
       THEN \E credentials \in BOOLEAN :
              /\ uploaded' = IF credentials THEN "uploaded" ELSE "no_credentials"
              /\ out' = out \cup {Msg("StartingUpload", 0, 0)}
       ELSE /\ uploaded' = uploaded
            /\ out' = out
    /\ pc' = "done"
    /\ UNCHANGED <<args, i, j, version, disk, tag, latest_releases, has_updates,
                   updated_projects, cache, bin, version0, decided, pass, abortAt,
                   configWrites, run, matchVars, archVars, scoreVars, first>>

\* main() has returned or raised: the process ends, and only config.yaml, the
\* staging directory and bin/ are left of the run
Leave(f) ==
    /\ pc \in {"done", "aborted"}
    /\ first' = f
    /\ pc' = "idle"
    /\ args' = NoFlags
    /\ i' = 1
    /\ j' = 1
    /\ version' = disk
    /\ version0' = disk
    /\ latest_releases' = [t \in Targets |-> "unfetched"]
    /\ has_updates' = FALSE
    /\ updated_projects' = << >>
    /\ uploaded' = "none"
    /\ out' = {}
    /\ decided' = [t \in Targets |-> "none"]
    /\ pass' = [p \in PassIds |-> NoPass]
    /\ abortAt' = NoAbort
    /\ configWrites' = 0
    /\ UNCHANGED <<disk, tag, cache, bin, run, matchVars, archVars, scoreVars>>

Exit == Leave(first)

-----------------------------------------------------------------------------
(* The pipeline *)

Next ==
    \/ StartRun
    \/ Exit
    \/ FetchOne
    \/ CheckVersions
    \/ Gate
    \/ ProcessSkip
    \/ ProcessPass
    \/ Upload

Spec == Init /\ [][Next]_vars

-----------------------------------------------------------------------------
(* find_best_match on its own *)

\* asset names and keywords find_best_match is applied to
AssetNamePool == {<<"a">>, <<"b">>, <<"A", "b">>, <<"b", "a">>, <<"c">>}

KeywordPool == {<<"a">>, <<"b">>, <<"a", "b">>, <<"A">>, << >>}

MaxAssets == 3

MaxKeywords == 2

BoundedSeq(S, n) == UNION {[1..k -> S] : k \in 0..n}

InitMatch ==
    /\ args = NoFlags
    /\ pc = "idle"
    /\ i = 1
    /\ j = 1
    /\ disk = [t \in Targets |-> None]
    /\ version = disk
    /\ tag = [t \in Targets |-> "v1"]
    /\ latest_releases = [t \in Targets |-> "unfetched"]
    /\ has_updates = FALSE
    /\ updated_projects = << >>
    /\ cache = [f \in AllNames |-> "absent"]
    /\ bin = {}
    /\ uploaded = "none"
    /\ out = {}
    /\ version0 = disk
    /\ decided = [t \in Targets |-> "none"]
    /\ pass = [p \in PassIds |-> NoPass]
    /\ abortAt = NoAbort
    /\ configWrites = 0
    /\ run = 0
    /\ m_assets \in BoundedSeq(AssetNamePool, MaxAssets)
    /\ m_keywords \in BoundedSeq(KeywordPool, MaxKeywords)
    /\ m_result = -1
    /\ a_name = << >>
    /\ a_result = "unset"
    /\ k_entry = << >>
    /\ k_name = << >>
    /\ k_score = -1
    /\ first = NoFirst

\* find_best_match(assets, keywords) is called
FindBestMatch ==
    /\ m_result = -1
    /\ m_result' = find_best_match(m_assets, m_keywords)
    /\ UNCHANGED <<m_assets, m_keywords, runVars, archVars, scoreVars, first>>

NextMatch == FindBestMatch

SpecMatch == InitMatch /\ [][NextMatch]_vars

-----------------------------------------------------------------------------
(* get_architecture_name *)

\* arch_map, in the order of the dict
arch_map ==
    << [key |-> "x64", aliases |-> <<<<"x", "8", "6", "_", "6", "4">>, <<"x", "6", "4">>, <<"a", "m", "d", "6", "4">>>>],
       [key |-> "arm64", aliases |-> <<<<"a", "a", "r", "c", "h", "6", "4">>, <<"a", "r", "m", "6", "4">>, <<"a", "r", "m", "v", "8">>>>],
       [key |-> "armhf", aliases |-> <<<<"a", "r", "m">>, <<"a", "r", "m", "v", "7">>, <<"a", "r", "m", "v", "6">>>>],
       [key |-> "x86", aliases |-> <<<<"i", "3", "8", "6">>, <<"i", "6", "8", "6">>>>],
       [key |-> "riscv", aliases |-> <<<<"r", "i", "s", "c", "v", "6", "4">>>>],
       [key |-> "ppc64", aliases |-> <<<<"p", "p", "c", "6", "4", "l", "e">>, <<"p", "o", "w", "e", "r", "p", "c", "6", "4", "l", "e">>>>],
       [key |-> "s390", aliases |-> <<<<"s", "3", "9", "0", "x">>>>] >>

\* `any(alias in file_name for alias in aliases)`
AnyAlias(aliases, file_name) ==
    \E n \in 1..Len(aliases) : IsSubstr(aliases[n], file_name)

RECURSIVE ArchFrom(_, _)
ArchFrom(file_name, n) ==
    IF n > Len(arch_map) THEN "default"
    ELSE IF AnyAlias(arch_map[n].aliases, file_name) THEN arch_map[n].key
    ELSE ArchFrom(file_name, n + 1)

RECURSIVE ArchLast(_, _)
ArchLast(file_name, n) ==
    IF n < 1 THEN "default"
    ELSE IF AnyAlias(arch_map[n].aliases, file_name) THEN arch_map[n].key
    ELSE ArchLast(file_name, n - 1)

\* a slip: the table is gone through from its end
get_architecture_name_Last(file_name) == ArchLast(file_name, Len(arch_map))

get_architecture_name(file_name) == ArchFrom(file_name, 1)

\* the pipeline's variables while a function is looked at on its own
AtRest ==
    /\ args = NoFlags
    /\ pc = "idle"
    /\ i = 1
    /\ j = 1
    /\ disk = [t \in Targets |-> None]
    /\ version = disk
    /\ tag = [t \in Targets |-> "v1"]
    /\ latest_releases = [t \in Targets |-> "unfetched"]
    /\ has_updates = FALSE
    /\ updated_projects = << >>
    /\ cache = [f \in AllNames |-> "absent"]
    /\ bin = {}
    /\ uploaded = "none"
    /\ out = {}
    /\ version0 = disk
    /\ decided = [t \in Targets |-> "none"]
    /\ pass = [p \in PassIds |-> NoPass]
    /\ abortAt = NoAbort
    /\ configWrites = 0
    /\ run = 0
    /\ first = NoFirst

\* pieces of file names; a file name is up to MaxParts of them in a row
FragmentPool ==
    {<<"a", "r", "m">>,
     <<"6", "4">>,
     <<"v", "8">>,
     <<"x", "8", "6", "_", "6", "4">>,
     <<"A", "R", "M">>,
     <<"a", "a", "r", "c", "h", "6", "4">>,
     <<"i", "3", "8", "6">>,
     <<"r", "i", "s", "c", "v", "6", "4">>,
     <<"p", "p", "c", "6", "4", "l", "e">>,
     <<"s", "3", "9", "0", "x">>}

MaxParts == 2

RECURSIVE Concat(_)
Concat(parts) == IF parts = << >> THEN << >> ELSE Head(parts) \o Concat(Tail(parts))

FileNames == {Concat(parts) : parts \in BoundedSeq(FragmentPool, MaxParts)}

InitArch ==
    /\ AtRest
    /\ m_assets = << >>
    /\ m_keywords = << >>
    /\ m_result = -1
    /\ k_entry = << >>
    /\ k_name = << >>
    /\ k_score = -1
    /\ a_name = << >>
    /\ a_result = "unset"

\* get_architecture_name(file_name) is called, any number of times
Classify ==
    /\ \E f \in FileNames :
         /\ a_name' = f
         /\ a_result' = get_architecture_name(f)
    /\ UNCHANGED <<runVars, matchVars, scoreVars, first>>

NextArch == Classify

SpecArch == InitArch /\ [][NextArch]_vars

-----------------------------------------------------------------------------
(* The score of an asset for a file_list entry *)

RECURSIVE Join(_, _)
Join(words, sep) ==
    IF words = << >> THEN << >>
    ELSE IF Len(words) = 1 THEN words[1]
    ELSE words[1] \o <<sep>> \o Join(Tail(words), sep)

\* file_list entries: keywords of the pool, then ":" and a destination
Entries == {Join(kws, ",") \o <<":", "x">> : kws \in BoundedSeq(KeywordPool, MaxKeywords)}

InitScore ==
    /\ AtRest
    /\ m_assets = << >>
    /\ m_keywords = << >>
    /\ m_result = -1
    /\ a_name = << >>
    /\ a_result = "unset"
    /\ k_entry \in Entries
    /\ k_name \in AssetNamePool
    /\ k_score = -1

\* process_releases splits the entry and lowers its keywords; find_best_match
\* scores the asset
ScoreAsset ==
    /\ k_score = -1
    /\ k_score' = score(k_name, Keywords(split(k_entry, ":")[1]))
    /\ UNCHANGED <<k_entry, k_name, runVars, matchVars, archVars, first>>

NextScore == ScoreAsset

SpecScore == InitScore /\ [][NextScore]_vars

-----------------------------------------------------------------------------
(* Two runs in succession with the same options *)

\* the run ended without a failure of a fetch, a download, an extraction or a write
Clean ==
    /\ pc = "done"
    /\ \A m \in out :
         m.kind \notin {"FetchFailed", "DownloadFailed", "ExtractFailed", "Error"}

StartFirst ==
    /\ run = 0
    /\ StartRun

\* the first run has ended; what it left is kept for the comparison
ExitFirst ==
    /\ run = 1
    /\ Leave([ended |-> TRUE, options |-> args, tree |-> bin, doc |-> disk,
              clean |-> Clean])

\* the script is started again with the command line of the first run
StartAgain ==
    /\ pc = "idle"
    /\ run = 1
    /\ first.ended
    /\ Enter(first.options)
    /\ UNCHANGED first

NextTwice ==
    \/ StartFirst
    \/ ExitFirst
    \/ StartAgain
    \/ FetchOne
    \/ CheckVersions
    \/ Gate
    \/ ProcessSkip
    \/ ProcessPass
    \/ Upload

SpecTwice == Init /\ [][NextTwice]_vars

-----------------------------------------------------------------------------
(* Properties *)

\* the run has ended: main() returned or raised
Terminal == pc \in {"done", "aborted"}

\* the update of main()'s call of check_and_update_versions
UpdateRequested == args.update_config \/ args.all

\* every FileSpec of target t was downloaded and extracted in this run
Materialized(t) ==
    \A n \in 1..Len(Config[t].file_list) :
        pass[<<t, n>>].dl = "ok" /\ pass[<<t, n>>].ex = "ok"

\* a pass of this run requested a download
Started(p) == pass[p].dl # "none"

\* the asset a started pass selected
SelectedName(p) == UpstreamAssets(p[1], latest_releases[p[1]])[pass[p].match]

\* VERSION_COMMITTED: an update was available, every FileSpec was materialized
\* and the new tag is the recorded version
Committed(t) ==
    /\ decided[t] = "UPDATE_AVAILABLE"
    /\ Materialized(t)
    /\ version[t] = latest_releases[t]
    /\ disk[t] = latest_releases[t]

\* C1: the recorded version of a target (in memory and in the configuration
\* document) differs from its value at the start of the run only when every
\* FileSpec of the target has been materialized in this run.
C1_AtomicCommit ==
    \A t \in Targets :
        (version[t] # version0[t] \/ disk[t] # version0[t]) => Materialized(t)

\* C2, as claimed: a target with an available update, all of whose FileSpecs
\* were materialized, ends the run with the fetched tag recorded in memory and
\* in the configuration document, whatever the options of the run.
C2_CommittedAnyOptions ==
    \A t \in Targets :
        (Terminal /\ decided[t] = "UPDATE_AVAILABLE" /\ Materialized(t))
            => (version[t] = latest_releases[t] /\ disk[t] = latest_releases[t])

\* C2, amended: the same, for the runs whose options request the update of the
\* versions (--update-config, --all, or no operation flag).
C2_Committed ==
    \A t \in Targets :
        (UpdateRequested /\ decided[t] = "UPDATE_AVAILABLE" /\ Materialized(t))
            => (version[t] = latest_releases[t] /\ disk[t] = latest_releases[t])

C2_Witness ==
    /\ pc = "done"
    /\ UpdateRequested
    /\ \E t \in Targets :
         /\ decided[t] = "UPDATE_AVAILABLE"
         /\ Materialized(t)
         /\ version0[t] # tag[t]
         /\ disk[t] = tag[t]

\* C3: find_best_match returns None exactly when no asset has a positive score;
\* else it returns an asset of maximal score, and the first of them.
C3_SelectBest ==
    m_result # -1 =>
        LET sc(n) == score(m_assets[n], m_keywords)
            idx   == 1..Len(m_assets)
        IN IF \A n \in idx : sc(n) = 0
           THEN m_result = 0
           ELSE /\ m_result \in idx
                /\ \A n \in idx : sc(n) <= sc(m_result)
                /\ \A n \in idx : n < m_result => sc(n) < sc(m_result)

\* a tie of the maximal, positive score, and the earlier asset returned
C3_Witness ==
    /\ m_result >= 1
    /\ \E n \in 1..Len(m_assets) :
         /\ n > m_result
         /\ score(m_assets[n], m_keywords) = score(m_assets[m_result], m_keywords)
         /\ score(m_assets[n], m_keywords) > 0

\* C4: a failed fetch of release metadata, of either kind, does not abort the
\* run: it is logged and the target is treated as having no update.
C4_FetchFailureNotFatal ==
    /\ abortAt.phase # "fetch"
    /\ \A t \in Targets :
         latest_releases[t] = None =>
            /\ Msg("FetchFailed", t, 0) \in out
            /\ decided[t] \in {"none", "STALE_NO_DATA"}

\* C5: a download that fails with a non-success status does not end the run at
\* that pass.
C5_DownloadFailureNotFatal ==
    \A p \in PassIds :
        pass[p].dl = "http_fail" =>
            ~(pc = "aborted" /\ abortAt.t = p[1] /\ abortAt.n = p[2])

\* C6: after a pass that started a download, on every exit path, no staged file
\* of the selected asset is in the staging directory.
C6_StagedFileRemoved ==
    \A p \in PassIds : Started(p) => cache[SelectedName(p)] = "absent"

\* C7: an asset is downloaded or extracted for a target only if the version
\* check of this run found an update for that target.
C7_OnlyUpdatedTargets ==
    \A p \in PassIds :
        (Started(p) \/ pass[p].ex # "none") => decided[p[1]] = "UPDATE_AVAILABLE"

\* every target's upstream tag equals the version recorded when the run started
Unchanged == pc # "idle" /\ \A t \in Targets : tag[t] = version0[t]

\* nothing was downloaded, extracted or copied in this run
NoDownloads == \A p \in PassIds : ~Started(p) /\ pass[p].ex = "none"

\* C8: a run in which every upstream tag equals the recorded version
\* downloads nothing, extracts nothing and does not rewrite the configuration
\* document.
C8_RoundTrip ==
    Unchanged => (NoDownloads /\ configWrites = 0 /\ disk = version0)

\* C9: the upload is invoked only if a target reached VERSION_COMMITTED or
\* --force was given; a finished run without either printed the nothing-to-do
\* message, downloaded nothing and uploaded nothing.
C9_UploadOnlyAfterCommit ==
    LET warranted == args.force \/ \E t \in Targets : Committed(t)
    IN /\ uploaded = "uploaded" => warranted
       /\ (pc = "done" /\ ~warranted) =>
            /\ Msg("NothingToDo", 0, 0) \in out
            /\ NoDownloads
            /\ uploaded # "uploaded"

\* no asset of the release fetched for target t scores above zero for FileSpec n
NoScore(t, n) ==
    LET assets == UpstreamAssets(t, latest_releases[t])
    IN \A a \in 1..Len(assets) :
          score(assets[a], Keywords(file_entry[<<t, n>>][1])) = 0

\* C10: the pass of a FileSpec for which no asset scores above zero reports
\* NoMatchFound, leaves the staging directory and the output tree alone,
\* attempts no download, extraction or removal, and hands over to the next
\* FileSpec, the next target or the phase after the downloads.
C10_NoMatch ==
    [][(pc = "process" /\ latest_releases[i] \in Tags /\ NoScore(i, j)) =>
          /\ Msg("NoMatchFound", i, j) \in out'
          /\ cache' = cache
          /\ bin' = bin
          /\ pass'[<<i, j>>].dl = "none"
          /\ pass'[<<i, j>>].ex = "none"
          /\ pass'[<<i, j>>].unlinked = "none"
          /\ pc' # "aborted"
          /\ <<pc', i', j'>> = AfterPass(i, j)]_vars

\* NoMatchFound for the second FileSpec of the first target, and the next
\* target downloaded after it
C10_Witness ==
    /\ Msg("NoMatchFound", 1, 2) \in out
    /\ pass[<<1, 2>>].match = 0
    /\ pass[<<2, 1>>].dl = "ok"


\* a key of arch_map has an alias that is a substring of the file name
Hit(n, file_name) ==
    \E alias \in {arch_map[n].aliases[m] : m \in 1..Len(arch_map[n].aliases)} :
        IsSubstr(alias, file_name)

\* C11: get_architecture_name returns the first key of the table, in table
\* order, one of whose aliases is a substring of the file name, and default
\* when there is none, whatever was classified before.
C11_Classify ==
    a_result # "unset" =>
        IF \E n \in 1..Len(arch_map) : Hit(n, a_name)
        THEN \E n \in 1..Len(arch_map) :
                /\ a_result = arch_map[n].key
                /\ Hit(n, a_name)
                /\ \A m \in 1..(n - 1) : ~Hit(m, a_name)
        ELSE a_result = "default"

\* a file name with aliases of two keys, classified by the earlier key
C11_Witness ==
    /\ a_result = "arm64"
    /\ Hit(2, a_name)
    /\ Hit(3, a_name)


\* C12: for a target with fetched metadata the version check reports
\* UpdateAvailable exactly when no version is recorded or the recorded version
\* is not equal to the latest tag, and UpToDate exactly when they are equal.
C12_VersionDiffer ==
    \A t \in Targets :
        (decided[t] # "none" /\ latest_releases[t] # None) =>
            /\ decided[t] = "UPDATE_AVAILABLE"
                 <=> (version0[t] = None \/ version0[t] # latest_releases[t])
            /\ decided[t] = "UP_TO_DATE" <=> version0[t] = latest_releases[t]

\* the recorded version is the later tag, the latest release the earlier one:
\* an update all the same
C12_Witness ==
    /\ version0[1] = "v2"
    /\ latest_releases[1] = "v1"
    /\ decided[1] = "UPDATE_AVAILABLE"

\* C13: the configuration document is rewritten at most once in a run, and
\* only when the version of a target changed in the run; without a change, or
\* when the update of the versions was not requested, it is left as it was.
C13_RewriteOnlyOnChange ==
    /\ configWrites <= 1
    /\ configWrites = 1 => \E t \in Targets : version[t] # version0[t]
    /\ (~UpdateRequested \/ \A t \in Targets : version[t] = version0[t]) =>
          (configWrites = 0 /\ disk = version0)

\* a finished run that requested the update, found every version up to date
\* and did not write
C13_Witness ==
    /\ pc = "done"
    /\ args.update_config
    /\ \A t \in Targets : decided[t] = "UP_TO_DATE"
    /\ configWrites = 0
    /\ Msg("AllUpToDate", 0, 0) \in out


\* C14: a pass whose staged file cannot be expanded or copied reports
\* ExtractFailed, removes the staged file and hands over to the next FileSpec,
\* the next target or the phase after the downloads.
C14_ExtractFailureNotFatal ==
    [][(pc = "process" /\ pass'[<<i, j>>].ex = "failed"
                       /\ pass'[<<i, j>>].bytes # "absent") =>
          /\ Msg("ExtractFailed", i, j) \in out'
          /\ cache'[UpstreamAssets(i, latest_releases[i])[pass'[<<i, j>>].match]]
                = "absent"
          /\ pc' # "aborted"
          /\ <<pc', i', j'>> = AfterPass(i, j)]_vars

\* a downloaded file that could not be expanded, and the next FileSpec of the
\* same target downloaded after it
C14_Witness ==
    /\ pass[<<1, 1>>].dl = "ok"
    /\ pass[<<1, 1>>].ex = "failed"
    /\ Msg("ExtractFailed", 1, 1) \in out
    /\ pass[<<1, 2>>].dl = "ok"

\* C15: a failure while the configuration document is rewritten does not end
\* the run.
C15_PersistFailureNotFatal ==
    ~(pc = "aborted" /\ abortAt.phase = "persist")

\* the names in updated_projects
Updated == {updated_projects[n] : n \in 1..Len(updated_projects)}

\* C18: a target whose metadata could not be fetched keeps its recorded
\* version, is not counted as an update, and has no pass of process_releases.
C18_StaleUntouched ==
    \A t \in Targets :
        latest_releases[t] = None =>
            /\ version[t] = version0[t]
            /\ disk[t] = version0[t]
            /\ Config[t].name \notin Updated
            /\ has_updates =>
                 \E u \in Targets : latest_releases[u] \in Tags /\ Config[u].name \in Updated
            /\ \A n \in 1..Len(Config[t].file_list) : pass[<<t, n>>] = NoPass

\* the first target was not fetched and the second one was updated and
\* downloaded in the same run
C18_Witness ==
    /\ pc = "done"
    /\ decided[1] = "STALE_NO_DATA"
    /\ version0[1] # tag[1]
    /\ decided[2] = "UPDATE_AVAILABLE"
    /\ disk[2] = tag[2]
    /\ pass[<<2, 1>>].dl = "ok"

\* C19: what a pass writes under its destination comes from the bytes the
\* same pass downloaded.
C19_OnlyFreshBytes ==
    \A p \in PassIds : pass[p].ex = "ok" => pass[p].dl = "ok"


CountedKeywords(entry) ==
    LET kws == split(split(entry, ":")[1], ",")
    IN {lower(kws[n]) : n \in 1..Len(kws)} \ {<< >>}

\* C17: the score of an asset for a FileSpec is the number of distinct,
\* non-empty keywords of the FileSpec that are substrings of the name, compared
\* without regard to case.
C17_DistinctHits ==
    k_score # -1 =>
        k_score = Cardinality({k \in CountedKeywords(k_entry) : IsSubstr(k, lower(k_name))})

====
